---- MODULE Spec2Model ----
(***************************************************************************)
(* Model of qr_generator.py: the URL plausibility check, the QR rendering  *)
(* pipeline of generate_qr (encode, normalise, optional caption            *)
(* compositing, directory creation, save) and the exit-code mapping of     *)
(* main.  Strings are sequences of one-character strings.  The qrcode and  *)
(* PIL libraries are external: each call into them either returns or       *)
(* raises, and the sizes they return are drawn from bounded sets.          *)
(***************************************************************************)
EXTENDS Integers, Sequences, FiniteSets, TLC

VARIABLES
    pc,          \* position of the run inside main / generate_qr
    url,         \* args.url
    caption,     \* args.caption: [given |-> FALSE] is None
    ret,         \* <<code>> once main has returned code, <<>> before
    escaped,     \* exception that left main uncaught ("none" if none did)
    raisedAt,    \* step of generate_qr whose exception is propagating
    stdout,      \* lines printed with print()
    stderr,      \* lines written to the error stream
    log,         \* history of the phases and filesystem effects of the run
    genCalls,    \* number of calls of generate_qr
    img_wrapped, \* result of qr.make_image
    qr_img,      \* result of _ensure_pil_image
    canvas,      \* the caption canvas
    font,        \* "unset", "default" or "none"
    tried,       \* measurement strategies attempted, in order
    text_width,
    text_height,
    x,
    y,
    fsDir,       \* TRUE iff out_path.parent exists
    fsFile,      \* what is stored at out_path
    fs0,         \* the filesystem when main started (history)
    mkdirCalls,
    saveCalls,
    result       \* value of is_plausible_url(url) in the checker-only runs

vars == <<pc, url, caption, ret, escaped, raisedAt, stdout, stderr, log,
          genCalls, img_wrapped, qr_img, canvas, font, tried, text_width,
          text_height, x, y, fsDir, fsFile, fs0, mkdirCalls, saveCalls,
          result>>

----------------------------------------------------------------------------
(* Bounds of the model *)

MaxRest == 4        \* characters after the scheme-like prefix of a URL
MinSide == 21       \* smallest side of the rendered matrix image, in pixels
SideSpan == 2       \* matrix widths range over MinSide .. MinSide + SideSpan
HeightSpan == 1     \* matrix heights range over MinSide .. MinSide + HeightSpan
MaxInk == 1         \* left/top ink offset of a measured bounding box
TextSlack == 2      \* measured widths range SideSpan+TextSlack around the side
MaxTextH == 1       \* measured heights range over 11 .. 11 + MaxTextH

----------------------------------------------------------------------------
(* Characters *)

Letters == {"h", "t", "p", "s", "a", "H", "T", "P", "S"}

Lower(c) ==
    CASE c = "H" -> "h"
      [] c = "T" -> "t"
      [] c = "P" -> "p"
      [] c = "S" -> "s"
      [] OTHER -> c

\* \w, as far as the characters of the model go
WordChars == Letters \cup {"1", "_"}

\* [\w\.-]
DomainChars == WordChars \cup {".", "-"}

\* [/\w\-._~:?#[\]@!$&'()*+,;=]
PathChars ==
    WordChars \cup {"/", "-", ".", "_", "~", ":", "?", "#", "[", "]", "@",
                    "!", "$", "&", "'", "(", ")", "*", "+", ",", ";", "="}

----------------------------------------------------------------------------
(* is_plausible_url: the compiled pattern, matched the way re.match does.  *)
(* A position p in 1 .. Len(s)+1 means "the next character to read is      *)
(* s[p]"; each piece of the pattern maps a set of start positions to the   *)
(* set of positions where it can stop.                                     *)

\* a literal at position i, under re.IGNORECASE
HasAt(s, i, lit) ==
    /\ i + Len(lit) - 1 <= Len(s)
    /\ \A k \in 1..Len(lit) : Lower(s[i + k - 1]) = lit[k]

\* ^(https?://)
SchemeEnds(s) ==
    {p \in {8, 9} :
        \/ p = 8 /\ HasAt(s, 1, <<"h", "t", "t", "p", ":", "/", "/">>)
        \/ p = 9 /\ HasAt(s, 1, <<"h", "t", "t", "p", "s", ":", "/", "/">>)}

\* [class]+ started at any position of P
OneOrMore(s, P, class) ==
    {q \in 1..(Len(s) + 1) :
        \E p \in P : p < q /\ \A i \in p..(q - 1) : s[i] \in class}

\* [class]* started at any position of P
ZeroOrMore(s, P, class) == P \cup OneOrMore(s, P, class)

\* one round of (?:\.[\w\.-]+)
DotGroup(s, P) ==
    OneOrMore(s, {p + 1 : p \in {q \in P : q <= Len(s) /\ s[q] = "."}},
              DomainChars)

\* (?:\.[\w\.-]+)+ : one to n rounds
RECURSIVE DotGroups(_, _, _)
DotGroups(s, P, n) ==
    IF n = 0 THEN {}
    ELSE LET G == DotGroup(s, P) IN G \cup DotGroups(s, G, n - 1)

\* $ without re.MULTILINE: the end of the string, or just before a newline
\* that is the last character of the string
AtDollar(s, p) ==
    \/ p = Len(s) + 1
    \/ p = Len(s) /\ s[p] = "\n"

is_plausible_url(s) ==
    LET first == OneOrMore(s, SchemeEnds(s), DomainChars)
        domain == DotGroups(s, first, Len(s))
        path == ZeroOrMore(s, domain, PathChars)
    IN \E p \in path : AtDollar(s, p)

----------------------------------------------------------------------------
(* Values *)

NoRet == <<>>
Returned(code) == <<code>>

None == [given |-> FALSE, text |-> <<>>]
Str(t) == [given |-> TRUE, text |-> t]

\* `caption is None`
NotCaption_m(c) == ~c.given

\* `not caption`
NotCaption(c) == ~c.given \/ Len(c.text) = 0

Img(w, h, mode, matrixAt, matrixSize, textAt, text) ==
    [w |-> w, h |-> h, mode |-> mode, matrixAt |-> matrixAt,
     matrixSize |-> matrixSize, textAt |-> textAt, text |-> text]

NoImg == Img(0, 0, "none", <<>>, <<>>, <<>>, <<>>)

Absent == [state |-> "absent", img |-> NoImg]
Old == [state |-> "old", img |-> NoImg]
Saved(img) == [state |-> "saved", img |-> img]
Partial == [state |-> "partial", img |-> NoImg]

draw_margin == 16
caption_height == 40

\* the margin counted once
TotalHeight_m(qr_height) == qr_height + caption_height + draw_margin

TotalHeight(qr_height) == qr_height + caption_height + draw_margin * 2

HeuristicWidth(text) == Len(text) * 6
HeuristicHeight == 12

\* division truncating toward zero
CenterX_m(qr_width, tw) ==
    IF qr_width - tw >= 0 THEN (qr_width - tw) \div 2
    ELSE -((tw - qr_width) \div 2)

\* Python's // is floor division, as is \div for a positive divisor
CenterX(qr_width, tw) == (qr_width - tw) \div 2

TextY(qr_height) == qr_height + draw_margin

----------------------------------------------------------------------------
(* Inputs *)

GoodUrl == <<"h", "t", "t", "p", "s", ":", "/", "/", "a", ".", "a">>
NotAUrl == <<"a", "-", "a">>
NewlineUrl == <<"h", "t", "t", "p", ":", "/", "/", "a", ".", "a", "\n">>

Urls == {GoodUrl, NotAUrl, NewlineUrl}

Hello == <<"h", "e", "l", "l", "o">>

Captions == {None, Str(<<>>), Str(Hello)}

Sides == MinSide..(MinSide + SideSpan)
Heights == MinSide..(MinSide + HeightSpan)
TextWidths == (MinSide - TextSlack)..(MinSide + SideSpan + TextSlack)
TextHeights == 11..(11 + MaxTextH)

\* (left, top, right, bottom) as returned by draw.textbbox
BBoxes ==
    {<<l, t, l + w, t + h>> :
        l \in 0..MaxInk, t \in 0..MaxInk, w \in TextWidths, h \in TextHeights}

Prefixes ==
    {<<>>,
     <<"h", "t", "t", "p", ":", "/", "/">>,
     <<"h", "t", "t", "p", "s", ":", "/", "/">>,
     <<"H", "T", "t", "P", ":", "/", "/">>,
     <<"h", "t", "t", "p", "S", ":", "/", "/">>,
     <<"h", "t", "t", "p", "s", "s", ":", "/", "/">>,
     <<"h", "t", "t", "p", ":", "/">>,
     <<"a", "h", "t", "t", "p", ":", "/", "/">>}

RestChars == {"a", ".", "-", "/", "?", " ", "\n"}

RECURSIVE SeqsUpTo(_, _)
SeqsUpTo(S, n) ==
    IF n = 0 THEN {<<>>}
    ELSE LET shorter == SeqsUpTo(S, n - 1)
         IN shorter \cup {Append(q, c) : q \in {r \in shorter : Len(r) = n - 1},
                                         c \in S}

CandidateUrls == {pre \o rest : pre \in Prefixes, rest \in SeqsUpTo(RestChars, MaxRest)}

----------------------------------------------------------------------------
(* The run of main *)

inVars == <<url, caption, fs0>>
outVars == <<stdout, stderr>>
fsVars == <<fsDir, fsFile, mkdirCalls, saveCalls>>
imgVars == <<img_wrapped, qr_img, canvas, font>>
measVars == <<tried, text_width, text_height, x, y>>

Init ==
    /\ pc = "parse"
    /\ url \in Urls
    /\ caption \in Captions
    /\ ret = NoRet
    /\ escaped = "none"
    /\ raisedAt = "none"
    /\ stdout = <<>>
    /\ stderr = <<>>
    /\ log = <<>>
    /\ genCalls = 0
    /\ img_wrapped = [wrapped |-> FALSE, img |-> NoImg]
    /\ qr_img = NoImg
    /\ canvas = NoImg
    /\ font = "unset"
    /\ tried = <<>>
    /\ text_width = 0
    /\ text_height = 0
    /\ x = 0
    /\ y = 0
    /\ fsDir \in BOOLEAN
    /\ fsFile \in {Absent, Old}
    /\ (fsFile = Old => fsDir)
    /\ fs0 = [dir |-> fsDir, file |-> fsFile]
    /\ mkdirCalls = 0
    /\ saveCalls = 0
    /\ result = [checked |-> FALSE, value |-> FALSE]

\* an exception leaves the current step of generate_qr and reaches the
\* except clause of main; nothing else changes
Raise(step) ==
    /\ pc' = "except"
    /\ raisedAt' = step
    /\ UNCHANGED <<inVars, outVars, fsVars, imgVars, measVars, ret, escaped,
                   log, genCalls, result>>

\* args = parser.parse_args(argv): returns the namespace, or argparse ends
\* the process with SystemExit after writing to the error stream
ParseArgs ==
    /\ pc = "parse"
    /\ \/ /\ pc' = "validate"
          /\ UNCHANGED <<escaped, stderr>>
       \/ /\ pc' = "exit"
          /\ escaped' = "SystemExit"
          /\ stderr' = Append(stderr, <<"usage">>)
    /\ UNCHANGED <<inVars, stdout, fsVars, imgVars, measVars, ret, raisedAt,
                   log, genCalls, result>>

\* the diagnostic printed, the return forgotten
Validate_m ==
    /\ pc = "validate"
    /\ log' = Append(log, "Validate")
    /\ result' = [checked |-> TRUE, value |-> is_plausible_url(url)]
    /\ stdout' = IF is_plausible_url(url) THEN stdout
                 ELSE Append(stdout, <<"[ERROR] not a valid URL", url>>)
    /\ pc' = "generate"
    /\ UNCHANGED <<inVars, stderr, fsVars, imgVars, measVars, ret, escaped,
                   raisedAt, genCalls>>

\* if not is_plausible_url(args.url): print(...); return 2
Validate ==
    /\ pc = "validate"
    /\ log' = Append(log, "Validate")
    /\ result' = [checked |-> TRUE, value |-> is_plausible_url(url)]
    /\ IF is_plausible_url(url)
       THEN /\ pc' = "generate"
            /\ UNCHANGED <<stdout, ret>>
       ELSE /\ stdout' = Append(stdout, <<"[ERROR] not a valid URL", url>>)
            /\ ret' = Returned(2)
            /\ pc' = "done"
    /\ UNCHANGED <<inVars, stderr, fsVars, imgVars, measVars, escaped,
                   raisedAt, genCalls>>

\* try: saved_path = generate_qr(...)
CallGenerate ==
    /\ pc = "generate"
    /\ log' = Append(log, "Generate")
    /\ genCalls' = genCalls + 1
    /\ pc' = "construct"
    /\ UNCHANGED <<inVars, outVars, fsVars, imgVars, measVars, ret, escaped,
                   raisedAt, result>>

\* a handler that catches the encoding errors only
ExceptHandler_m ==
    /\ pc = "except"
    /\ IF raisedAt \in {"construct", "add_data", "make", "make_image"}
       THEN /\ stdout' = Append(stdout,
                                <<"[ERROR] Failed to generate QR", raisedAt>>)
            /\ ret' = Returned(1)
            /\ pc' = "done"
            /\ UNCHANGED escaped
       ELSE /\ escaped' = raisedAt
            /\ pc' = "exit"
            /\ UNCHANGED <<stdout, ret>>
    /\ UNCHANGED <<inVars, stderr, fsVars, imgVars, measVars, raisedAt, log,
                   genCalls, result>>

\* except Exception as exc: print(...); return 1
ExceptHandler ==
    /\ pc = "except"
    /\ stdout' = Append(stdout, <<"[ERROR] Failed to generate QR", raisedAt>>)
    /\ ret' = Returned(1)
    /\ pc' = "done"
    /\ UNCHANGED <<inVars, stderr, fsVars, imgVars, measVars, escaped,
                   raisedAt, log, genCalls, result>>

\* print(f"[OK] QR code saved to: {saved_path}"); return 0
Report ==
    /\ pc = "report"
    /\ log' = Append(log, "Report")
    /\ stdout' = Append(stdout, <<"[OK] QR code saved to", "out_path">>)
    /\ ret' = Returned(0)
    /\ pc' = "done"
    /\ UNCHANGED <<inVars, stderr, fsVars, imgVars, measVars, escaped,
                   raisedAt, genCalls, result>>

----------------------------------------------------------------------------
(* generate_qr *)

\* a library call that only returns or raises
Step(here, next) ==
    /\ pc = here
    /\ \/ /\ pc' = next
          /\ UNCHANGED <<inVars, outVars, fsVars, imgVars, measVars, ret,
                         escaped, raisedAt, log, genCalls, result>>
       \/ Raise(here)

\* out_path.parent.mkdir(parents=True, exist_ok=True)
Mkdir(here, next) ==
    /\ pc = here
    /\ \/ /\ fsDir' = TRUE
          /\ mkdirCalls' = mkdirCalls + 1
          /\ log' = Append(log, "mkdir")
          /\ pc' = next
          /\ UNCHANGED <<inVars, outVars, fsFile, saveCalls, imgVars,
                         measVars, ret, escaped, raisedAt, genCalls, result>>
       \/ /\ ~fsDir
          /\ Raise(here)

\* image.save(out_path); return out_path.  A save that raises may have
\* truncated the file already.
Save(here, image) ==
    /\ pc = here
    /\ \/ /\ fsDir
          /\ fsFile' = Saved(image)
          /\ saveCalls' = saveCalls + 1
          /\ log' = Append(log, "save")
          /\ pc' = "report"
          /\ UNCHANGED <<inVars, outVars, fsDir, mkdirCalls, imgVars,
                         measVars, ret, escaped, raisedAt, genCalls, result>>
       \/ /\ fsFile' \in {fsFile, Partial}
          /\ saveCalls' = saveCalls + 1
          /\ pc' = "except"
          /\ raisedAt' = here
          /\ UNCHANGED <<inVars, outVars, fsDir, mkdirCalls, imgVars,
                         measVars, ret, escaped, log, genCalls, result>>

\* a directory creation placed at the head of generate_qr
Construct_m == Mkdir("construct", "add_data")

\* qr = qrcode.QRCode(version=None, error_correction=M, box_size, border)
Construct == Step("construct", "add_data")

\* qr.add_data(url)
AddData == Step("add_data", "make")

\* qr.make(fit=True)
Make == Step("make", "make_image")

\* img_wrapped = qr.make_image(fill_color="black", back_color="white")
MakeImage ==
    /\ pc = "make_image"
    /\ \/ /\ \E w \in Sides, h \in Heights, wrapped \in BOOLEAN,
                mode \in {"1", "RGB"} :
                img_wrapped' =
                    [wrapped |-> wrapped,
                     img |-> Img(w, h, mode, <<0, 0>>, <<w, h>>, <<>>, <<>>)]
          /\ pc' = "ensure_pil"
          /\ UNCHANGED <<inVars, outVars, fsVars, qr_img, canvas, font,
                         measVars, ret, escaped, raisedAt, log, genCalls,
                         result>>
       \/ Raise("make_image")

\* _ensure_pil_image: get_image() or, when that raises, the value itself;
\* then convert("RGB") unless the mode is RGB already
_ensure_pil_image(wrapped) ==
    LET pil_img == IF wrapped.wrapped THEN wrapped.img  \* get_image()
                   ELSE wrapped.img                     \* except: as is
    IN IF pil_img.mode # "RGB" THEN [pil_img EXCEPT !.mode = "RGB"]
       ELSE pil_img

\* qr_img = _ensure_pil_image(img_wrapped)
EnsurePilImage ==
    /\ pc = "ensure_pil"
    /\ \/ /\ qr_img' = _ensure_pil_image(img_wrapped)
          /\ pc' = "branch"
          /\ UNCHANGED <<inVars, outVars, fsVars, img_wrapped, canvas, font,
                         measVars, ret, escaped, raisedAt, log, genCalls,
                         result>>
       \/ /\ img_wrapped.img.mode # "RGB"
          /\ Raise("ensure_pil")

\* the no-caption branch saving without creating the directory
CaptionBranch_m ==
    /\ pc = "branch"
    /\ pc' = IF NotCaption(caption) THEN "save_plain" ELSE "new_canvas"
    /\ UNCHANGED <<inVars, outVars, fsVars, imgVars, measVars, ret, escaped,
                   raisedAt, log, genCalls, result>>

\* qr_width, qr_height = qr_img.size; if not caption:
CaptionBranch ==
    /\ pc = "branch"
    /\ pc' = IF NotCaption(caption) THEN "mkdir_plain" ELSE "new_canvas"
    /\ UNCHANGED <<inVars, outVars, fsVars, imgVars, measVars, ret, escaped,
                   raisedAt, log, genCalls, result>>

MkdirPlain == Mkdir("mkdir_plain", "save_plain")

SavePlain == Save("save_plain", qr_img)

\* canvas = Image.new("RGB", (qr_width, total_height), "white")
NewCanvas ==
    /\ pc = "new_canvas"
    /\ \/ /\ canvas' = Img(qr_img.w, TotalHeight(qr_img.h), "RGB",
                           <<>>, <<>>, <<>>, <<>>)
          /\ pc' = "paste"
          /\ UNCHANGED <<inVars, outVars, fsVars, img_wrapped, qr_img, font,
                         measVars, ret, escaped, raisedAt, log, genCalls,
                         result>>
       \/ Raise("new_canvas")

\* canvas.paste(qr_img, (0, 0))
Paste ==
    /\ pc = "paste"
    /\ \/ /\ canvas' = [canvas EXCEPT !.matrixAt = <<0, 0>>,
                                      !.matrixSize = <<qr_img.w, qr_img.h>>]
          /\ pc' = "draw"
          /\ UNCHANGED <<inVars, outVars, fsVars, img_wrapped, qr_img, font,
                         measVars, ret, escaped, raisedAt, log, genCalls,
                         result>>
       \/ Raise("paste")

\* draw = ImageDraw.Draw(canvas)
MakeDraw == Step("draw", "load_font")

\* try: font = ImageFont.load_default()  except Exception: font = None
LoadFont ==
    /\ pc = "load_font"
    /\ font' \in {"default", "none"}
    /\ pc' = "measure_bbox"
    /\ UNCHANGED <<inVars, outVars, fsVars, img_wrapped, qr_img, canvas,
                   measVars, ret, escaped, raisedAt, log, genCalls, result>>

\* try: bbox = draw.textbbox((0, 0), text, font=font); width and height
\* are the differences of its corners.  except Exception: go on to textsize
MeasureBBox ==
    /\ pc = "measure_bbox"
    /\ tried' = Append(tried, "textbbox")
    /\ \/ /\ \E bbox \in BBoxes :
                /\ text_width' = bbox[3] - bbox[1]
                /\ text_height' = bbox[4] - bbox[2]
          /\ pc' = "position"
       \/ /\ pc' = "measure_textsize"
          /\ UNCHANGED <<text_width, text_height>>
    /\ UNCHANGED <<inVars, outVars, fsVars, imgVars, x, y, ret, escaped,
                   raisedAt, log, genCalls, result>>

\* the legacy measurement without its own try
MeasureTextsize_m ==
    /\ pc = "measure_textsize"
    /\ \/ /\ tried' = Append(tried, "textsize")
          /\ \E w \in TextWidths, h \in TextHeights :
                /\ text_width' = w
                /\ text_height' = h
          /\ pc' = "position"
          /\ UNCHANGED <<inVars, outVars, fsVars, imgVars, x, y, ret, escaped,
                         raisedAt, log, genCalls, result>>
       \/ Raise("measure_textsize")

\* try: text_width, text_height = draw.textsize(text, font=font)
\* except Exception: go on to the heuristic
MeasureTextsize ==
    /\ pc = "measure_textsize"
    /\ tried' = Append(tried, "textsize")
    /\ \/ /\ \E w \in TextWidths, h \in TextHeights :
                /\ text_width' = w
                /\ text_height' = h
          /\ pc' = "position"
       \/ /\ pc' = "measure_heuristic"
          /\ UNCHANGED <<text_width, text_height>>
    /\ UNCHANGED <<inVars, outVars, fsVars, imgVars, x, y, ret, escaped,
                   raisedAt, log, genCalls, result>>

\* text_width = len(text) * 6; text_height = 12
MeasureHeuristic ==
    /\ pc = "measure_heuristic"
    /\ tried' = Append(tried, "heuristic")
    /\ text_width' = HeuristicWidth(caption.text)
    /\ text_height' = HeuristicHeight
    /\ pc' = "position"
    /\ UNCHANGED <<inVars, outVars, fsVars, imgVars, x, y, ret, escaped,
                   raisedAt, log, genCalls, result>>

\* x = (qr_width - text_width) // 2; y = qr_height + draw_margin
Position ==
    /\ pc = "position"
    /\ x' = CenterX(qr_img.w, text_width)
    /\ y' = TextY(qr_img.h)
    /\ pc' = "draw_text"
    /\ UNCHANGED <<inVars, outVars, fsVars, imgVars, tried, text_width,
                   text_height, ret, escaped, raisedAt, log, genCalls, result>>

\* draw.text((x, y), text, fill="black", font=font)
DrawText ==
    /\ pc = "draw_text"
    /\ \/ /\ canvas' = [canvas EXCEPT !.textAt = <<x, y>>,
                                      !.text = caption.text]
          /\ pc' = "mkdir_caption"
          /\ UNCHANGED <<inVars, outVars, fsVars, img_wrapped, qr_img, font,
                         measVars, ret, escaped, raisedAt, log, genCalls,
                         result>>
       \/ Raise("draw_text")

MkdirCaption == Mkdir("mkdir_caption", "save_caption")

SaveCaption == Save("save_caption", canvas)

----------------------------------------------------------------------------

Next ==
    \/ ParseArgs
    \/ Validate
    \/ CallGenerate
    \/ Construct
    \/ AddData
    \/ Make
    \/ MakeImage
    \/ EnsurePilImage
    \/ CaptionBranch
    \/ MkdirPlain
    \/ SavePlain
    \/ NewCanvas
    \/ Paste
    \/ MakeDraw
    \/ LoadFont
    \/ MeasureBBox
    \/ MeasureTextsize
    \/ MeasureHeuristic
    \/ Position
    \/ DrawText
    \/ MkdirCaption
    \/ SaveCaption
    \/ ExceptHandler
    \/ Report

Spec == Init /\ [][Next]_vars

----------------------------------------------------------------------------
(* The checker alone, applied to every candidate string *)

UrlInit ==
    /\ pc = "url_input"
    /\ url \in CandidateUrls
    /\ caption = None
    /\ ret = NoRet
    /\ escaped = "none"
    /\ raisedAt = "none"
    /\ stdout = <<>>
    /\ stderr = <<>>
    /\ log = <<>>
    /\ genCalls = 0
    /\ img_wrapped = [wrapped |-> FALSE, img |-> NoImg]
    /\ qr_img = NoImg
    /\ canvas = NoImg
    /\ font = "unset"
    /\ tried = <<>>
    /\ text_width = 0
    /\ text_height = 0
    /\ x = 0
    /\ y = 0
    /\ fsDir = FALSE
    /\ fsFile = Absent
    /\ fs0 = [dir |-> fsDir, file |-> fsFile]
    /\ mkdirCalls = 0
    /\ saveCalls = 0
    /\ result = [checked |-> FALSE, value |-> FALSE]

CheckUrl ==
    /\ pc = "url_input"
    /\ result' = [checked |-> TRUE, value |-> is_plausible_url(url)]
    /\ pc' = "url_checked"
    /\ UNCHANGED <<inVars, outVars, fsVars, imgVars, measVars, ret, escaped,
                   raisedAt, log, genCalls>>

UrlNext == CheckUrl

SpecUrl == UrlInit /\ [][UrlNext]_vars

----------------------------------------------------------------------------
(* Properties *)

BeforeValidation == pc \in {"parse", "validate", "exit"}

FsUntouched ==
    /\ fsDir = fs0.dir
    /\ fsFile = fs0.file
    /\ mkdirCalls = 0
    /\ saveCalls = 0

IsGenError(line) == line[1] = "[ERROR] Failed to generate QR"
IsUrlError(line) == line[1] = "[ERROR] not a valid URL"

GenErrors(seq) == Cardinality({i \in 1..Len(seq) : IsGenError(seq[i])})
UrlErrors(seq) == Cardinality({i \in 1..Len(seq) : IsUrlError(seq[i])})

\* C1: when args.url fails is_plausible_url, main returns 2 and generate_qr
\* is never called: nothing is encoded, no directory is created and no file
\* is written in that run.
C1_InvalidUrlReturns2 ==
    (~BeforeValidation /\ ~is_plausible_url(url)) =>
        /\ pc = "done"
        /\ ret = Returned(2)
        /\ genCalls = 0
        /\ img_wrapped.img = NoImg
        /\ FsUntouched

C1_Witness ==
    /\ pc = "done"
    /\ url = NotAUrl
    /\ ret = Returned(2)
    /\ ~fs0.dir

\* C2: for a URL that passes the check, an exception raised at any step of
\* generate_qr is caught once in main, which prints one diagnostic and
\* returns 1; the exception never leaves main, and main returns neither 0
\* nor 2.
C2_GenerationFailureReturns1 ==
    (is_plausible_url(url) /\ raisedAt # "none") =>
        /\ escaped = "none"
        /\ pc \in {"except", "done"}
        /\ (pc = "except" =>
                ret = NoRet /\ GenErrors(stdout) = 0)
        /\ (pc = "done" =>
                /\ ret = Returned(1)
                /\ GenErrors(stdout) = 1
                /\ Len(stdout) = 1)

C2_Witness ==
    /\ pc = "done"
    /\ raisedAt = "save_caption"
    /\ ret = Returned(1)
    /\ stdout = <<(<<"[ERROR] Failed to generate QR", "save_caption">>)>>

IsPhase(e) == e \in {"Validate", "Generate", "Report"}

IsPrefix(a, b) == Len(a) <= Len(b) /\ \A i \in 1..Len(a) : a[i] = b[i]

\* C3: a run of main visits Validate, Generate and Report in that order,
\* each at most once and none revisited; main returns 0 only in a run that
\* created the parent directory, then saved the image at the output path,
\* then printed the saved path.
C3_LinearPhases ==
    /\ IsPrefix(SelectSeq(log, IsPhase), <<"Validate", "Generate", "Report">>)
    /\ (ret = Returned(0) =>
            /\ log = <<"Validate", "Generate", "mkdir", "save", "Report">>
            /\ fsDir
            /\ fsFile.state = "saved"
            /\ stdout = <<(<<"[OK] QR code saved to", "out_path">>)>>)

C3_Witness ==
    /\ ret = Returned(0)
    /\ ~fs0.dir
    /\ fsDir
    /\ fsFile.state = "saved"

\* C4: with W x H the image the encoder produced, the saved image has width
\* W; its height is H when caption is None and H + 40 + 32 when a caption
\* such as "hello" is given, and the matrix sits unmodified at (0,0).
C4_SavedDimensions ==
    fsFile.state = "saved" =>
        LET W == img_wrapped.img.w
            H == img_wrapped.img.h
        IN /\ fsFile.img.w = W
           /\ (caption = None => fsFile.img.h = H)
           /\ (caption = Str(Hello) => fsFile.img.h = H + 40 + 32)
           /\ fsFile.img.matrixAt = <<0, 0>>
           /\ fsFile.img.matrixSize = <<W, H>>

C4_Witness ==
    /\ fsFile.state = "saved"
    /\ caption = Str(Hello)
    /\ fsFile.img.h = img_wrapped.img.h + 72
    /\ img_wrapped.img.mode = "1"

\* C5 as stated: with the empty string as caption the compositor runs and
\* the saved image is matrixHeight + 40 + 32 high.
C5_EmptyCaptionBand ==
    (caption = Str(<<>>) /\ fsFile.state = "saved") =>
        /\ canvas # NoImg
        /\ fsFile.img.h = img_wrapped.img.h + 40 + 32

\* C5 amended: with the empty string as caption generate_qr takes the
\* no-caption branch: no canvas is made, nothing is measured or drawn, and
\* the saved image is exactly the matrix image, matrixHeight high.
C5_EmptyCaptionIsNoCaption ==
    caption = Str(<<>>) =>
        /\ canvas = NoImg
        /\ tried = <<>>
        /\ font = "unset"
        /\ (fsFile.state = "saved" =>
                /\ fsFile.img = qr_img
                /\ fsFile.img.h = img_wrapped.img.h)

C5_Witness ==
    /\ caption = Str(<<>>)
    /\ fsFile.state = "saved"
    /\ pc = "done"

MeasureSteps == {"measure_bbox", "measure_textsize", "measure_heuristic"}

\* C6: the measurement tries textbbox, then textsize only if textbbox
\* raised, then the heuristic (6 * len(text) wide, 12 high) only if textsize
\* raised too; whichever of them raise, a width and a height result and no
\* exception of the measurement leaves generate_qr.
C6_MeasurementFallback ==
    /\ IsPrefix(tried, <<"textbbox", "textsize", "heuristic">>)
    /\ raisedAt \notin MeasureSteps
    /\ (pc = "measure_bbox" => tried = <<>>)
    /\ (pc = "measure_textsize" => tried = <<"textbbox">>)
    /\ (pc = "measure_heuristic" => tried = <<"textbbox", "textsize">>)
    /\ (pc = "position" =>
            /\ Len(tried) >= 1
            /\ text_width >= 0
            /\ text_height >= 0)
    /\ (Len(tried) = 3 /\ pc # "measure_heuristic" =>
            /\ text_width = 6 * Len(caption.text)
            /\ text_height = 12)

C6_Witness ==
    /\ pc = "position"
    /\ tried = <<"textbbox", "textsize", "heuristic">>
    /\ text_width = 30

Positioned ==
    pc \in {"draw_text", "mkdir_caption", "save_caption"} \/ canvas.textAt # <<>>

\* C9: the caption is drawn at x = floor((W - T) / 2), y = matrixHeight + 16,
\* so the gaps x and W - T - x differ by at most 1; when T > W, x is
\* negative and the canvas is still W wide.
C9_Centering ==
    Positioned =>
        LET W == qr_img.w
            T == text_width
        IN /\ 2 * x <= W - T
           /\ W - T <= 2 * x + 1
           /\ (W - T - x) - x \in {0, 1}
           /\ y = qr_img.h + 16
           /\ (canvas.textAt # <<>> => canvas.textAt = <<x, y>>)
           /\ (T > W => x < 0 /\ canvas.w = W)

C9_Witness ==
    /\ canvas.textAt # <<>>
    /\ text_width > qr_img.w
    /\ (text_width - qr_img.w) % 2 = 1
    /\ x < 0

FsSteps == {"mkdir_plain", "save_plain", "mkdir_caption", "save_caption"}

IsFsEffect(e) == e \in {"mkdir", "save"}

\* C10: in both branches of generate_qr the directory creation and the save
\* are the last two effects, each done at most once; so when an earlier step
\* raises, the filesystem is as it was: no directory created, no file
\* written.
C10_FilesystemLast ==
    /\ mkdirCalls <= 1
    /\ saveCalls <= 1
    /\ IsPrefix(SelectSeq(log, IsFsEffect), <<"mkdir", "save">>)
    /\ (mkdirCalls = 1 =>
            pc \in {"save_plain", "save_caption", "report", "done", "except"})
    /\ (saveCalls = 1 =>
            mkdirCalls = 1 /\ pc \in {"report", "done", "except"})
    /\ (raisedAt \notin ({"none"} \cup FsSteps) => FsUntouched)

C10_Witness ==
    /\ pc = "done"
    /\ raisedAt = "draw_text"
    /\ ~fsDir
    /\ fsFile = Absent

\* what C7 says an accepted string looks like: a scheme, a domain-like
\* segment with a dot in it, and path characters up to the last character
ClaimedShape(s) ==
    \E i \in {8, 9} : \E j \in (i + 1)..(Len(s) + 1) :
        /\ \/ i = 8 /\ HasAt(s, 1, <<"h", "t", "t", "p", ":", "/", "/">>)
           \/ i = 9 /\ HasAt(s, 1, <<"h", "t", "t", "p", "s", ":", "/", "/">>)
        /\ \A k \in i..(j - 1) : s[k] \in DomainChars
        /\ \E k \in i..(j - 1) : s[k] = "."
        /\ \A k \in j..Len(s) : s[k] \in PathChars

\* C7: is_plausible_url returns true only for a string that is, from its
\* first to its last character, http:// or https:// in any case, a
\* domain-like segment containing a dot, and then only safe path
\* characters; any other string, one with a trailing character outside the
\* set included, gets false.
C7_AcceptsOnlyClaimedShape ==
    (result.checked /\ result.value) => ClaimedShape(url)

\* C8: the diagnostic of a failed plausibility check, echoing the rejected
\* string, goes to the error stream and not to standard output.
C8_DiagnosticOnErrorStream ==
    (pc = "done" /\ ~is_plausible_url(url)) =>
        /\ \E i \in 1..Len(stderr) : IsUrlError(stderr[i]) /\ stderr[i][2] = url
        /\ UrlErrors(stdout) = 0

====
